---- MODULE Spec2Model ----
(***************************************************************************)
(* A model of the YouTube transcript extractor actor (src/src/main.py):    *)
(* the caption normalizer YouTubeTranscriptExtractor.process_vtt_file,     *)
(* one extraction attempt extract_transcript, and the batch loop of main.  *)
(* Text is modelled as sequences of one-character strings, so that strip,  *)
(* split, the two regular expressions and join are computed, not assumed.  *)
(***************************************************************************)
EXTENDS Integers, Sequences, FiniteSets, TLC

(***************************************************************************)
(* Bounds of the model.                                                    *)
(***************************************************************************)
MaxLines == 3
MaxCalls == 3
MaxUrls == 2
MaxRetriesBound == 3

(***************************************************************************)
(* Strings: str.strip, str.startswith, `in`, str.split(sep)[0], str.join.  *)
(***************************************************************************)
Whitespace == {" ", "\t", "\n", "\r"}

Digits == {"0", "1", "2", "3", "4", "5", "6", "7", "8", "9"}

RECURSIVE LStrip(_)
LStrip(s) ==
  IF s = <<>> THEN s
  ELSE IF Head(s) \in Whitespace THEN LStrip(Tail(s)) ELSE s

RECURSIVE RStrip(_)
RStrip(s) ==
  IF s = <<>> THEN s
  ELSE IF s[Len(s)] \in Whitespace THEN RStrip(SubSeq(s, 1, Len(s) - 1)) ELSE s

Strip(s) == RStrip(LStrip(s))

StartsWith(s, p) == Len(s) >= Len(p) /\ SubSeq(s, 1, Len(p)) = p

Occurrences(s, p) ==
  {k \in 1..(Len(s) - Len(p) + 1) : SubSeq(s, k, k + Len(p) - 1) = p}

Contains(s, p) == Occurrences(s, p) # {}

\* s.split(sep)[0]: the text before the first occurrence of sep, or all of s
FirstPart(s, sep) ==
  IF Contains(s, sep)
  THEN LET k == CHOOSE j \in Occurrences(s, sep) :
                  \A m \in Occurrences(s, sep) : j <= m
       IN SubSeq(s, 1, k - 1)
  ELSE s

RECURSIVE Join(_, _)
Join(parts, sep) ==
  IF parts = <<>> THEN <<>>
  ELSE IF Len(parts) = 1 THEN parts[1]
  ELSE parts[1] \o sep \o Join(Tail(parts), sep)

(***************************************************************************)
(* YouTubeTranscriptExtractor: the two compiled patterns and their users.  *)
(***************************************************************************)
AllDigits(s) == Len(s) >= 1 /\ \A k \in 1..Len(s) : s[k] \in Digits

\* (:\d{2})?(\.\d{3})?$ of timestamp_regex
ClockTail(s) ==
  \/ s = <<>>
  \/ Len(s) = 3 /\ s[1] = ":" /\ AllDigits(SubSeq(s, 2, 3))
  \/ Len(s) = 4 /\ s[1] = "." /\ AllDigits(SubSeq(s, 2, 4))
  \/ Len(s) = 7 /\ s[1] = ":" /\ AllDigits(SubSeq(s, 2, 3))
                /\ s[4] = "." /\ AllDigits(SubSeq(s, 5, 7))

\* ^\d+$|^\d{1,2}:\d{2}(:\d{2})?(\.\d{3})?$
timestamp_regex(s) ==
  \/ AllDigits(s)
  \/ \E h \in 1..2 :
       /\ Len(s) >= h + 3
       /\ AllDigits(SubSeq(s, 1, h))
       /\ s[h + 1] = ":"
       /\ AllDigits(SubSeq(s, h + 2, h + 3))
       /\ ClockTail(SubSeq(s, h + 4, Len(s)))

is_timestamp_line(line) == timestamp_regex(line)

\* tag_regex.sub('', text) with tag_regex = <[^>]*>
RECURSIVE remove_vtt_tags(_)
remove_vtt_tags(text) ==
  IF text = <<>> THEN <<>>
  ELSE IF Head(text) = "<" /\ Contains(text, <<">">>)
       THEN remove_vtt_tags(SubSeq(text, Len(FirstPart(text, <<">">>)) + 2, Len(text)))
       ELSE <<Head(text)>> \o remove_vtt_tags(Tail(text))

format_vtt_timestamp_whole(vtt_time) == vtt_time

format_vtt_timestamp(vtt_time) == FirstPart(vtt_time, <<".">>)

(***************************************************************************)
(* process_vtt_file: the locals of one call and the body of its loop.      *)
(***************************************************************************)
\* current_timestamp = None
None == <<"None">>

\* what the three names hold before the first call binds them
NoLocals == [text_builder |-> <<>>, seen_segments |-> {}, current_timestamp |-> None]

NewLocalsKeepSeen(prev) ==
  [text_builder |-> <<>>, seen_segments |-> prev.seen_segments,
   current_timestamp |-> None]

\* text_builder = []; seen_segments = set(); current_timestamp = None
NewLocals(prev) ==
  [text_builder |-> <<>>, seen_segments |-> {}, current_timestamp |-> None]

IsSkipped(line) ==
  \/ line = <<>>
  \/ line = <<"W", "E", "B", "V", "T", "T">>
  \/ StartsWith(line, <<"N", "O", "T", "E">>)
  \/ StartsWith(line, <<"S", "T", "Y", "L", "E">>)
  \/ StartsWith(line, <<"K", "i", "n", "d", ":">>)
  \/ StartsWith(line, <<"L", "a", "n", "g", "u", "a", "g", "e", ":">>)

Arrow == <<"-", "-", ">">>

ArrowSep == <<" ", "-", "-", ">", " ">>

IsNewSegmentAlways(clean_line, seen) == TRUE

\* clean_line not in seen_segments
IsNewSegment(clean_line, seen) == clean_line \notin seen

\* f"[{current_timestamp}] {clean_line}" when a timestamp is wanted and known
Segment(clean_line, ts, include_ts) ==
  IF include_ts /\ ts # None /\ ts # <<>>
  THEN <<"[">> \o ts \o <<"]", " ">> \o clean_line
  ELSE clean_line

IsIndexMarkerAnyClock(line) == is_timestamp_line(line)

\* self.is_timestamp_line(line) and not ':' in line
IsIndexMarker(line) == is_timestamp_line(line) /\ ~Contains(line, <<":">>)

\* the body of `for line in lines`, on the locals st
ProcessLine(st, raw, include_ts) ==
  LET line == Strip(raw) IN
  IF IsSkipped(line) THEN st
  ELSE IF Contains(line, Arrow)
  THEN IF include_ts
       THEN [st EXCEPT !.current_timestamp =
                         format_vtt_timestamp(FirstPart(line, ArrowSep))]
       ELSE st
  ELSE IF IsIndexMarker(line) THEN st
  ELSE LET clean_line == remove_vtt_tags(line) IN
       IF clean_line # <<>> /\ IsNewSegment(clean_line, st.seen_segments)
       THEN [st EXCEPT
               !.text_builder =
                  Append(@, Segment(clean_line, st.current_timestamp, include_ts)),
               !.seen_segments = @ \cup {clean_line}]
       ELSE st

\* "\n".join(text_builder) or " ".join(text_builder)
JoinResult(tb, include_ts) ==
  Join(tb, IF include_ts THEN <<"\n">> ELSE <<" ">>)

ReRaise == [raised |-> TRUE, value |-> <<>>]

\* except Exception: log and return ""
OnProcessError == [raised |-> FALSE, value |-> <<>>]

IsEmptyTranscriptNoTrim(text) == text = <<>>

\* not transcript_text or len(transcript_text.strip()) == 0
IsEmptyTranscript(text) == text = <<>> \/ Len(Strip(text)) = 0

(***************************************************************************)
(* Caption documents: the lines a document is made of are drawn from       *)
(* LineChars; a document is the list of its lines (content.split('\n')),   *)
(* or cannot be read at all.                                               *)
(***************************************************************************)
LineChars ==
  <<
    <<"W", "E", "B", "V", "T", "T">>,
    <<"K", "i", "n", "d", ":", " ", "c">>,
    <<" ", " ">>,
    <<"0", "0", ":", "0", "1", ":", "0", "2", ".", "3", "4", "5", " ", "-", "-", ">", " ", "0", "0", ":", "0", "1", ":", "0", "5", ".", "0", "0", "0">>,
    <<"0", "0", ":", "0", "0", ":", "0", "7", ".", "0", "0", "0", " ", "-", "-", ">", " ", "0", "0", ":", "0", "0", ":", "0", "9", ".", "0", "0", "0", " ", "a", ":", "s">>,
    <<".", "5", " ", "-", "-", ">", " ", "1">>,
    <<"1", "2">>,
    <<"1", "2", ":", "3", "4">>,
    <<"h", "i">>,
    <<" ", "<", "c", ">", "h", "i", "<", "/", "c", ">">>,
    <<"<", "c", ">", " ", "<", "/", "c", ">">>,
    <<"y", "o", " ", "<", "i", ">">>
  >>

LineIds == 1..Len(LineChars)

Unreadable == [readable |-> FALSE, lines |-> <<>>]

\* every document of 1..MaxLines lines, and the one that cannot be opened
Docs ==
  {Unreadable} \cup
  {[readable |-> TRUE, lines |-> l] :
     l \in UNION {[1..n -> LineIds] : n \in 1..MaxLines}}

\* the documents normalized one after the other on one extractor
CallDocs ==
  {Unreadable,
   [readable |-> TRUE, lines |-> <<1>>],
   [readable |-> TRUE, lines |-> <<9, 9>>],
   [readable |-> TRUE, lines |-> <<4, 9, 12>>]}

\* content.split('\n')
Content(d) == [k \in 1..Len(d.lines) |-> LineChars[d.lines[k]]]

\* not content.strip()
IsBlank(lines) == \A k \in 1..Len(lines) : Strip(lines[k]) = <<>>

RECURSIVE ProcessLines(_, _, _, _)
ProcessLines(st, lines, k, include_ts) ==
  IF k > Len(lines) THEN st
  ELSE ProcessLines(ProcessLine(st, lines[k], include_ts), lines, k + 1, include_ts)

\* one whole call on a newly constructed extractor
process_vtt_file(d, include_ts) ==
  IF ~d.readable THEN OnProcessError
  ELSE IF IsBlank(Content(d)) THEN [raised |-> FALSE, value |-> <<>>]
  ELSE [raised |-> FALSE,
        value |-> JoinResult(
                    ProcessLines(NewLocals(NoLocals), Content(d), 1, include_ts)
                      .text_builder,
                    include_ts)]

(***************************************************************************)
(* State.                                                                  *)
(***************************************************************************)
VARIABLES
  \* actor input and main's locals
  start_urls, video_urls, max_retries, include_timestamps,
  all_urls, pc, item, retry_count, success, last_error,
  \* the dataset and Actor.fail
  sink, fail_message,
  \* one extract_transcript call
  video_id, temp_dir, ytdlp, vtt_file, transcript_text, ret, exc,
  \* bookkeeping of the current item: calls of extract_transcript, sleeps,
  \* runs of yt-dlp, scratch directories created
  attempts_made, sleeps_made, fetches_made, dirs_made,
  \* process_vtt_file run line by line
  queue, doc, npc, lineIdx, text_builder, seen_segments, current_timestamp,
  result,
  \* for each entry of text_builder, the line of the document it came from
  segLine,
  \* the documents this extractor has been asked to normalize so far
  done_docs

mainVars ==
  <<start_urls, video_urls, max_retries, all_urls, pc, item, retry_count,
    success, last_error, sink, fail_message, video_id, temp_dir, ytdlp,
    vtt_file, transcript_text, ret, exc, attempts_made, sleeps_made,
    fetches_made, dirs_made>>

normVars ==
  <<queue, doc, npc, lineIdx, text_builder, seen_segments, current_timestamp,
    result, segLine, done_docs>>

vars == <<mainVars, normVars, include_timestamps>>

Locals ==
  [text_builder |-> text_builder, seen_segments |-> seen_segments,
   current_timestamp |-> current_timestamp]

(***************************************************************************)
(* process_vtt_file, one step per line of the document.                    *)
(***************************************************************************)
\* open and read the file, the empty-content return, the locals
NormOpen ==
  /\ npc \in {"idle", "returned"}
  /\ queue # <<>>
  /\ doc' = Head(queue)
  /\ queue' = Tail(queue)
  /\ segLine' = <<>>
  /\ IF ~Head(queue).readable
     THEN /\ npc' = IF OnProcessError.raised THEN "raised" ELSE "returned"
          /\ result' = OnProcessError.value
          /\ UNCHANGED <<lineIdx, text_builder, seen_segments, current_timestamp>>
     ELSE IF IsBlank(Content(Head(queue)))
     THEN /\ npc' = "returned"
          /\ result' = <<>>
          /\ UNCHANGED <<lineIdx, text_builder, seen_segments, current_timestamp>>
     ELSE /\ npc' = "loop"
          /\ lineIdx' = 1
          /\ text_builder' = NewLocals(Locals).text_builder
          /\ seen_segments' = NewLocals(Locals).seen_segments
          /\ current_timestamp' = NewLocals(Locals).current_timestamp
          /\ UNCHANGED result
  /\ done_docs' = Append(done_docs, Head(queue))
  /\ UNCHANGED <<mainVars, include_timestamps>>

\* one iteration of `for line in lines`
NormLine ==
  /\ npc = "loop"
  /\ lineIdx <= Len(doc.lines)
  /\ LET st == ProcessLine(Locals, Content(doc)[lineIdx], include_timestamps) IN
     /\ text_builder' = st.text_builder
     /\ seen_segments' = st.seen_segments
     /\ current_timestamp' = st.current_timestamp
     /\ segLine' = IF Len(st.text_builder) > Len(text_builder)
                   THEN Append(segLine, lineIdx) ELSE segLine
  /\ lineIdx' = lineIdx + 1
  /\ UNCHANGED <<queue, doc, npc, result, done_docs, mainVars, include_timestamps>>

\* the join and the return
NormJoin ==
  /\ npc = "loop"
  /\ lineIdx > Len(doc.lines)
  /\ result' = JoinResult(text_builder, include_timestamps)
  /\ npc' = "returned"
  /\ UNCHANGED <<queue, doc, lineIdx, text_builder, seen_segments,
                 current_timestamp, done_docs, segLine, mainVars,
                 include_timestamps>>

NormNext == NormOpen \/ NormLine \/ NormJoin

(***************************************************************************)
(* URLs and extract_video_id.  A URL is the part that selects one of the   *)
(* four patterns (or none) and the characters that follow it.              *)
(***************************************************************************)
\* [a-zA-Z0-9_-]
IdChars ==
  {"a", "b", "c", "d", "e", "f", "g", "h", "i", "j", "k", "l", "m",
   "n", "o", "p", "q", "r", "s", "t", "u", "v", "w", "x", "y", "z",
   "A", "B", "C", "D", "E", "F", "G", "H", "I", "J", "K", "L", "M",
   "N", "O", "P", "Q", "R", "S", "T", "U", "V", "W", "X", "Y", "Z",
   "0", "1", "2", "3", "4", "5", "6", "7", "8", "9", "_", "-"}

KnownShapes ==
  {"youtube.com/watch?v=", "youtu.be/", "youtube.com/shorts/", "youtube.com/embed/"}

NoId == <<>>

\* re.search of the four patterns: the shape, then 11 id characters
extract_video_id(url) ==
  IF /\ url.shape \in KnownShapes
     /\ Len(url.tail) >= 11
     /\ \A k \in 1..11 : url.tail[k] \in IdChars
  THEN SubSeq(url.tail, 1, 11)
  ELSE NoId

UrlWatch == [shape |-> "youtube.com/watch?v=", tail |-> <<"d", "Q", "w", "4", "w", "9", "W", "g", "X", "c", "Q">>]

UrlShort == [shape |-> "youtu.be/", tail |-> <<"d", "Q", "w", "4", "w", "9", "W", "g", "X", "c", "Q", "&", "t", "=", "1">>]

UrlNoPattern == [shape |-> "example.com/", tail |-> <<"d", "Q", "w", "4", "w", "9", "W", "g", "X", "c", "Q">>]

UrlBadId == [shape |-> "youtube.com/embed/", tail |-> <<"d", "Q", "w", "4", "?">>]

NoUrl == [shape |-> "", tail |-> <<>>]

\* entries of startUrls: {url: ...}, {} and a bare string
StartEntries ==
  {[type |-> "dict", url |-> UrlShort],
   [type |-> "dict", url |-> NoUrl],
   [type |-> "str", url |-> UrlBadId],
   [type |-> "other", url |-> NoUrl]}

\* entries of videoUrls
VideoEntries == {UrlWatch, UrlNoPattern}

SeqsUpTo(S, n) == UNION {[1..k -> S] : k \in 0..n}

RECURSIVE CombineStart(_)
\* for start_url in start_urls: dict with a url, or str
CombineStart(entries) ==
  IF entries = <<>> THEN <<>>
  ELSE LET e == Head(entries) IN
       (IF e.type = "dict" /\ e.url # NoUrl THEN <<e.url>>
        ELSE IF e.type = "str" THEN <<e.url>>
        ELSE <<>>) \o CombineStart(Tail(entries))

\* what yt-dlp leaves behind: the documents a successful run may write
FetchDocs ==
  {Unreadable,
   [readable |-> TRUE, lines |-> <<1, 2>>],
   [readable |-> TRUE, lines |-> <<11>>],
   [readable |-> TRUE, lines |-> <<4, 9, 10>>],
   [readable |-> TRUE, lines |-> <<12>>]}

\* subprocess.run: TimeoutExpired, a non-zero return code, or return code 0
\* with the *.vtt files found under the scratch directory
YtDlpOutcomes ==
  {[kind |-> "timeout", files |-> <<>>],
   [kind |-> "nonzero", files |-> <<>>],
   [kind |-> "zero", files |-> <<>>]}
  \cup {[kind |-> "zero", files |-> <<d>>] : d \in FetchDocs}

NoError == "None"

NoExc == [type |-> "none", msg |-> NoError]

ErrInvalid == [type |-> "ValueError", msg |-> "Could not extract video ID from URL"]

ErrTimeoutCancels == [type |-> "CancelledError", msg |-> "yt-dlp command timed out after 120 seconds"]

\* except subprocess.TimeoutExpired: raise RuntimeError(...)
ErrTimeout == [type |-> "RuntimeError", msg |-> "yt-dlp command timed out after 120 seconds"]

ErrFailed == [type |-> "RuntimeError", msg |-> "yt-dlp failed with return code"]

ErrNoVtt == [type |-> "RuntimeError", msg |-> "No VTT files found"]

ErrEmpty == [type |-> "RuntimeError", msg |-> "No transcript content found in VTT file"]

ErrProcess == [type |-> "Exception", msg |-> "Error processing subtitle file"]

FailMessage == "No video URLs provided. Please provide URLs in startUrls or videoUrls fields."

CatchesRuntimeErrorOnly(e) == e.type = "RuntimeError"

\* except Exception as e: every exception raised here is a ValueError, a
\* RuntimeError or another Exception; a cancellation is none of them
Catches(e) == e.type \in {"ValueError", "RuntimeError", "Exception"}

CleanupLeaks(exists) == exists

\* TemporaryDirectory.__exit__, on return and on every exception
Cleanup(exists) == FALSE

(***************************************************************************)
(* main: the input, the combined list, the loop over the URLs.             *)
(***************************************************************************)
RetryValues == {0 - 1} \cup (0..MaxRetriesBound)

\* Combine URLs from both sources
Combine ==
  /\ pc = "start"
  /\ all_urls' = CombineStart(start_urls) \o video_urls
  /\ pc' = "check"
  /\ UNCHANGED <<start_urls, video_urls, max_retries, item, retry_count,
                 success, last_error, sink, fail_message, video_id, temp_dir,
                 ytdlp, vtt_file, transcript_text, ret, exc, attempts_made,
                 sleeps_made, fetches_made, dirs_made, normVars, include_timestamps>>

IsEmptyInputNever(urls) == FALSE

\* if not all_urls
IsEmptyInput(urls) == urls = <<>>

\* await Actor.fail(...); return
FailEmpty ==
  /\ pc = "check"
  /\ IsEmptyInput(all_urls)
  /\ fail_message' = FailMessage
  /\ pc' = "failed"
  /\ UNCHANGED <<start_urls, video_urls, max_retries, all_urls, item,
                 retry_count, success, last_error, sink, video_id, temp_dir,
                 ytdlp, vtt_file, transcript_text, ret, exc, attempts_made,
                 sleeps_made, fetches_made, dirs_made, normVars, include_timestamps>>

\* extractor = YouTubeTranscriptExtractor(); enter the for loop
StartBatch ==
  /\ pc = "check"
  /\ ~IsEmptyInput(all_urls)
  /\ pc' = "next"
  /\ UNCHANGED <<start_urls, video_urls, max_retries, all_urls, item,
                 retry_count, success, last_error, sink, fail_message,
                 video_id, temp_dir, ytdlp, vtt_file, transcript_text, ret,
                 exc, attempts_made, sleeps_made, fetches_made, dirs_made, normVars,
                 include_timestamps>>

ItemLocalsKeepCount(prev) ==
  [retry_count |-> prev.retry_count, success |-> FALSE, last_error |-> NoError]

\* retry_count = 0; success = False; last_error = None
ItemLocals(prev) ==
  [retry_count |-> 0, success |-> FALSE, last_error |-> NoError]

\* for i, video_url in enumerate(all_urls, 1): the three resets
NextItem ==
  /\ pc = "next"
  /\ item < Len(all_urls)
  /\ item' = item + 1
  /\ LET st == ItemLocals([retry_count |-> retry_count, success |-> success,
                           last_error |-> last_error]) IN
       /\ retry_count' = st.retry_count
       /\ success' = st.success
       /\ last_error' = st.last_error
  /\ attempts_made' = 0
  /\ sleeps_made' = 0
  /\ fetches_made' = 0
  /\ dirs_made' = 0
  /\ pc' = "while"
  /\ UNCHANGED <<start_urls, video_urls, max_retries, all_urls, sink,
                 fail_message, video_id, temp_dir, ytdlp, vtt_file,
                 transcript_text, ret, exc, normVars, include_timestamps>>

\* the for loop is exhausted: the actor finishes
Finish ==
  /\ pc = "next"
  /\ item >= Len(all_urls)
  /\ pc' = "finished"
  /\ UNCHANGED <<start_urls, video_urls, max_retries, all_urls, item,
                 retry_count, success, last_error, sink, fail_message,
                 video_id, temp_dir, ytdlp, vtt_file, transcript_text, ret,
                 exc, attempts_made, sleeps_made, fetches_made, dirs_made, normVars,
                 include_timestamps>>

WhileCondIgnoresSuccess(rc, mr, ok) == rc < mr

WhileCondOneMore(rc, mr, ok) == rc <= mr /\ ~ok

\* while retry_count < max_retries and not success
WhileCond(rc, mr, ok) == rc < mr /\ ~ok

\* the loop test holds: call extract_transcript
WhileEnter ==
  /\ pc = "while"
  /\ WhileCond(retry_count, max_retries, success)
  /\ attempts_made' = attempts_made + 1
  /\ pc' = "extract"
  /\ UNCHANGED <<start_urls, video_urls, max_retries, all_urls, item,
                 retry_count, success, last_error, sink, fail_message,
                 video_id, temp_dir, ytdlp, vtt_file, transcript_text, ret,
                 exc, sleeps_made, fetches_made, dirs_made, normVars, include_timestamps>>

\* the loop test fails
WhileExit ==
  /\ pc = "while"
  /\ ~WhileCond(retry_count, max_retries, success)
  /\ pc' = "after"
  /\ UNCHANGED <<start_urls, video_urls, max_retries, all_urls, item,
                 retry_count, success, last_error, sink, fail_message,
                 video_id, temp_dir, ytdlp, vtt_file, transcript_text, ret,
                 exc, attempts_made, sleeps_made, fetches_made, dirs_made, normVars,
                 include_timestamps>>

(***************************************************************************)
(* extract_transcript, one attempt.                                        *)
(***************************************************************************)
\* an exception leaves extract_transcript; inside the with block the scratch
\* directory is cleaned up on the way out
Raise(e, inside_with) ==
  /\ exc' = e
  /\ temp_dir' = IF inside_with THEN Cleanup(temp_dir) ELSE temp_dir
  /\ pc' = "except"

\* video_id = self.extract_video_id(video_url); ValueError if there is none
ExtractVideoId ==
  /\ pc = "extract"
  /\ LET id == extract_video_id(all_urls[item]) IN
     IF id = NoId
     THEN /\ Raise(ErrInvalid, FALSE)
          /\ UNCHANGED video_id
     ELSE /\ video_id' = id
          /\ pc' = "mkdir"
          /\ UNCHANGED <<exc, temp_dir>>
  /\ UNCHANGED <<start_urls, video_urls, max_retries, all_urls, item,
                 retry_count, success, last_error, sink, fail_message, ytdlp,
                 vtt_file, transcript_text, ret, attempts_made, sleeps_made,
                 fetches_made, dirs_made, normVars, include_timestamps>>

\* with tempfile.TemporaryDirectory() as temp_dir: ... vtt_dir.mkdir(...)
MakeTempDir ==
  /\ pc = "mkdir"
  /\ temp_dir' = TRUE
  /\ dirs_made' = dirs_made + 1
  /\ pc' = "ytdlp"
  /\ UNCHANGED <<start_urls, video_urls, max_retries, all_urls, item,
                 retry_count, success, last_error, sink, fail_message,
                 video_id, ytdlp, vtt_file, transcript_text, ret, exc,
                 attempts_made, sleeps_made, fetches_made, normVars,
                 include_timestamps>>

\* subprocess.run(cmd, ..., timeout=120) and the return code test
RunYtDlp ==
  /\ pc = "ytdlp"
  /\ \E o \in YtDlpOutcomes :
       /\ ytdlp' = o
       /\ IF o.kind = "timeout" THEN Raise(ErrTimeout, TRUE)
          ELSE IF o.kind = "nonzero" THEN Raise(ErrFailed, TRUE)
          ELSE /\ pc' = "find"
               /\ UNCHANGED <<exc, temp_dir>>
  /\ fetches_made' = fetches_made + 1
  /\ UNCHANGED <<dirs_made, start_urls, video_urls, max_retries, all_urls, item,
                 retry_count, success, last_error, sink, fail_message,
                 video_id, vtt_file, transcript_text, ret, attempts_made,
                 sleeps_made, normVars, include_timestamps>>

\* vtt_files = list(vtt_dir.rglob("*.vtt")); the first one, or RuntimeError
FindVtt ==
  /\ pc = "find"
  /\ IF ytdlp.files = <<>>
     THEN /\ Raise(ErrNoVtt, TRUE)
          /\ UNCHANGED vtt_file
     ELSE /\ vtt_file' = ytdlp.files[1]
          /\ pc' = "process"
          /\ UNCHANGED <<exc, temp_dir>>
  /\ UNCHANGED <<start_urls, video_urls, max_retries, all_urls, item,
                 retry_count, success, last_error, sink, fail_message,
                 video_id, ytdlp, transcript_text, ret, attempts_made,
                 sleeps_made, fetches_made, dirs_made, normVars, include_timestamps>>

\* transcript_text = self.process_vtt_file(vtt_file, include_timestamps)
ProcessVtt ==
  /\ pc = "process"
  /\ LET r == process_vtt_file(vtt_file, include_timestamps) IN
     IF r.raised
     THEN /\ Raise(ErrProcess, TRUE)
          /\ UNCHANGED transcript_text
     ELSE /\ transcript_text' = r.value
          /\ pc' = "checktext"
          /\ UNCHANGED <<exc, temp_dir>>
  /\ UNCHANGED <<start_urls, video_urls, max_retries, all_urls, item,
                 retry_count, success, last_error, sink, fail_message,
                 video_id, ytdlp, vtt_file, ret, attempts_made, sleeps_made,
                 fetches_made, dirs_made, normVars, include_timestamps>>

SuccessRecordRawLength ==
  [success |-> TRUE,
   video_id |-> video_id,
   video_url |-> all_urls[item],
   transcript |-> Strip(transcript_text),
   transcript_length |-> Len(transcript_text),
   source |-> "ytdlp_vtt_optimized",
   language |-> "en",
   includes_timestamps |-> include_timestamps]

\* the success record (video_title and proxy_used are left out)
SuccessRecord ==
  [success |-> TRUE,
   video_id |-> video_id,
   video_url |-> all_urls[item],
   transcript |-> Strip(transcript_text),
   transcript_length |-> Len(Strip(transcript_text)),
   source |-> "ytdlp_vtt_optimized",
   language |-> "en",
   includes_timestamps |-> include_timestamps]

\* the empty-transcript test, then the return out of the with block
CheckTranscript ==
  /\ pc = "checktext"
  /\ IF IsEmptyTranscript(transcript_text)
     THEN /\ Raise(ErrEmpty, TRUE)
          /\ UNCHANGED ret
     ELSE /\ ret' = SuccessRecord
          /\ temp_dir' = Cleanup(temp_dir)
          /\ pc' = "push"
          /\ UNCHANGED exc
  /\ UNCHANGED <<start_urls, video_urls, max_retries, all_urls, item,
                 retry_count, success, last_error, sink, fail_message,
                 video_id, ytdlp, vtt_file, transcript_text, attempts_made,
                 sleeps_made, fetches_made, dirs_made, normVars, include_timestamps>>

(***************************************************************************)
(* main: what follows one attempt.                                         *)
(***************************************************************************)
PushDataFront(data, record) == <<record>> \o data

\* Actor.push_data: the dataset is appended to
PushData(data, record) == Append(data, record)

\* await Actor.push_data(result); success = True
PushResult ==
  /\ pc = "push"
  /\ sink' = PushData(sink, ret)
  /\ success' = TRUE
  /\ pc' = "while"
  /\ UNCHANGED <<start_urls, video_urls, max_retries, all_urls, item,
                 retry_count, last_error, fail_message, video_id, temp_dir,
                 ytdlp, vtt_file, transcript_text, ret, exc, attempts_made,
                 sleeps_made, fetches_made, dirs_made, normVars, include_timestamps>>

FirstError(prev, e) == IF prev = NoError THEN e.msg ELSE prev

\* last_error = str(e)
LastError(prev, e) == e.msg

ShouldSleepAlways(rc, mr) == TRUE

\* if retry_count < max_retries, after the increment
ShouldSleep(rc, mr) == rc < mr

\* except Exception as e: count, remember, and go on to sleep or to the test
HandleError ==
  /\ pc = "except"
  /\ IF Catches(exc)
     THEN /\ retry_count' = retry_count + 1
          /\ last_error' = LastError(last_error, exc)
          /\ pc' = IF ShouldSleep(retry_count + 1, max_retries)
                   THEN "sleep" ELSE "while"
     ELSE /\ pc' = "crashed"
          /\ UNCHANGED <<retry_count, last_error>>
  /\ UNCHANGED <<start_urls, video_urls, max_retries, all_urls, item, success,
                 sink, fail_message, video_id, temp_dir, ytdlp, vtt_file,
                 transcript_text, ret, exc, attempts_made, sleeps_made,
                 fetches_made, dirs_made, normVars, include_timestamps>>

\* await asyncio.sleep(5)
Sleep ==
  /\ pc = "sleep"
  /\ sleeps_made' = sleeps_made + 1
  /\ pc' = "while"
  /\ UNCHANGED <<start_urls, video_urls, max_retries, all_urls, item,
                 retry_count, success, last_error, sink, fail_message,
                 video_id, temp_dir, ytdlp, vtt_file, transcript_text, ret,
                 exc, attempts_made, fetches_made, dirs_made, normVars,
                 include_timestamps>>

FailureRecord ==
  [success |-> FALSE,
   video_url |-> all_urls[item],
   error |-> last_error,
   attempts |-> max_retries,
   source |-> "ytdlp_vtt_optimized"]

\* if not success: push the failed result
PushFailure ==
  /\ pc = "after"
  /\ ~success
  /\ sink' = PushData(sink, FailureRecord)
  /\ pc' = "next"
  /\ UNCHANGED <<start_urls, video_urls, max_retries, all_urls, item,
                 retry_count, success, last_error, fail_message, video_id,
                 temp_dir, ytdlp, vtt_file, transcript_text, ret, exc,
                 attempts_made, sleeps_made, fetches_made, dirs_made, normVars,
                 include_timestamps>>

\* the item succeeded: nothing more to push
ItemDone ==
  /\ pc = "after"
  /\ success
  /\ pc' = "next"
  /\ UNCHANGED <<start_urls, video_urls, max_retries, all_urls, item,
                 retry_count, success, last_error, sink, fail_message,
                 video_id, temp_dir, ytdlp, vtt_file, transcript_text, ret,
                 exc, attempts_made, sleeps_made, fetches_made, dirs_made, normVars,
                 include_timestamps>>

(***************************************************************************)
(* Specifications.                                                         *)
(***************************************************************************)
NormIdle ==
  /\ doc = Unreadable
  /\ npc = "idle"
  /\ lineIdx = 0
  /\ text_builder = NoLocals.text_builder
  /\ seen_segments = NoLocals.seen_segments
  /\ current_timestamp = NoLocals.current_timestamp
  /\ result = <<>>
  /\ segLine = <<>>
  /\ done_docs = <<>>

MainIdle(at) ==
  /\ all_urls = <<>>
  /\ pc = at
  /\ item = 0
  /\ retry_count = 0
  /\ success = FALSE
  /\ last_error = NoError
  /\ sink = <<>>
  /\ fail_message = ""
  /\ video_id = NoId
  /\ temp_dir = FALSE
  /\ ytdlp = [kind |-> "none", files |-> <<>>]
  /\ vtt_file = Unreadable
  /\ transcript_text = <<>>
  /\ ret = [success |-> FALSE]
  /\ exc = NoExc
  /\ attempts_made = 0
  /\ sleeps_made = 0
  /\ fetches_made = 0
  /\ dirs_made = 0

\* the actor run: the input as Actor.get_input() returns it
Init ==
  /\ start_urls \in SeqsUpTo(StartEntries, MaxUrls)
  /\ video_urls \in SeqsUpTo(VideoEntries, MaxUrls)
  /\ Len(start_urls) + Len(video_urls) <= MaxUrls
  /\ max_retries \in RetryValues
  /\ include_timestamps \in BOOLEAN
  /\ MainIdle("start")
  /\ queue = <<>>
  /\ NormIdle

Next ==
  \/ Combine \/ FailEmpty \/ StartBatch \/ NextItem \/ Finish
  \/ WhileEnter \/ WhileExit
  \/ ExtractVideoId \/ MakeTempDir \/ RunYtDlp \/ FindVtt \/ ProcessVtt
  \/ CheckTranscript
  \/ PushResult \/ HandleError \/ Sleep \/ PushFailure \/ ItemDone

Spec == Init /\ [][Next]_vars

\* one call of process_vtt_file on any document
InitNorm ==
  /\ start_urls = <<>>
  /\ video_urls = <<>>
  /\ max_retries = 0
  /\ MainIdle("off")
  /\ include_timestamps \in BOOLEAN
  /\ queue \in {<<d>> : d \in Docs}
  /\ NormIdle

SpecNorm == InitNorm /\ [][NormNext]_vars

\* up to MaxCalls calls of process_vtt_file on the same extractor
InitCalls ==
  /\ start_urls = <<>>
  /\ video_urls = <<>>
  /\ max_retries = 0
  /\ MainIdle("off")
  /\ include_timestamps \in BOOLEAN
  /\ queue \in SeqsUpTo(CallDocs, MaxCalls)
  /\ NormIdle

SpecCalls == InitCalls /\ [][NormNext]_vars

(***************************************************************************)
(* What the caption format says of each line of LineChars, written down    *)
(* from the format and not computed: the kind of the line, the start time  *)
(* HH:MM:SS of a timing line, the text of a text line without its tags.    *)
(***************************************************************************)
LineKind ==
  <<"skip", "skip", "skip", "timing", "timing", "arrow", "index", "text", "text", "text", "text", "text">>

LineStart ==
  <<
    <<>>,
    <<>>,
    <<>>,
    <<"0", "0", ":", "0", "1", ":", "0", "2">>,
    <<"0", "0", ":", "0", "0", ":", "0", "7">>,
    <<>>,
    <<>>,
    <<>>,
    <<>>,
    <<>>,
    <<>>,
    <<>>
  >>

LineText ==
  <<
    <<>>,
    <<>>,
    <<>>,
    <<>>,
    <<>>,
    <<>>,
    <<>>,
    <<"1", "2", ":", "3", "4">>,
    <<"h", "i">>,
    <<"h", "i">>,
    <<" ">>,
    <<"y", "o", " ">>
  >>

KindOf(d, n) == LineKind[d.lines[n]]

TextOf(d, n) == LineText[d.lines[n]]

\* the text of the k-th emitted segment, by the line it came from
SegText(k) == TextOf(doc, segLine[k])

EndsWith(s, t) == Len(s) >= Len(t) /\ SubSeq(s, Len(s) - Len(t) + 1, Len(s)) = t

AllBlank(s) == \A k \in 1..Len(s) : s[k] \in Whitespace

\* the document has no text line at all
NoTextLine(d) ==
  ~d.readable \/ \A n \in 1..Len(d.lines) : KindOf(d, n) # "text"

\* the document has no text line with a visible character
OnlyBlankText(d) ==
  ~d.readable
  \/ \A n \in 1..Len(d.lines) : KindOf(d, n) = "text" => AllBlank(TextOf(d, n))

\* the current item's URL has none of the four shapes with an 11-character id
CurrentUrlInvalid ==
  /\ item >= 1
  /\ all_urls[item].shape \notin KnownShapes
     \/ Len(all_urls[item].tail) < 11
     \/ \E k \in 1..Len(all_urls[item].tail) : k <= 11 /\ all_urls[item].tail[k] \notin IdChars

InAttempt == pc \in {"extract", "mkdir", "ytdlp", "find", "process", "checktext"}

\* the lines with the arrow before line n of the document, and the last one
ArrowLinesBefore(n) ==
  {m \in 1..(n - 1) : KindOf(doc, m) \in {"timing", "arrow"}}

LastArrowBefore(n) ==
  CHOOSE m \in ArrowLinesBefore(n) : \A q \in ArrowLinesBefore(n) : q <= m

(***************************************************************************)
(* C1: for every non-empty batch and every sequence of attempt outcomes,   *)
(* the sink holds exactly one record per URL of the combined list, in      *)
(* step with the loop (never zero and never both for a finished item), no  *)
(* failure of an attempt escapes the loop, and control is always at a step *)
(* of the loop, on an item of the list, until the run has finished.        *)
(***************************************************************************)
C1_OneRecordPerUrl ==
  /\ pc # "crashed"
  /\ pc \in {"next", "finished"} => Len(sink) = item
  /\ pc \in {"while", "after", "push", "except", "sleep"} \/ InAttempt
       => Len(sink) = item - 1 + (IF success THEN 1 ELSE 0)
  /\ \A k \in 1..Len(sink) : sink[k].video_url = all_urls[k]
  /\ pc = "finished" => Len(sink) = Len(all_urls) /\ all_urls # <<>>
  /\ pc \in {"while", "after", "push", "except", "sleep"} \/ InAttempt
       => item \in 1..Len(all_urls)
  /\ pc \in {"next", "while", "extract", "mkdir", "ytdlp", "find", "process",
             "checktext", "push", "except", "sleep", "after", "start",
             "check", "finished", "failed"}

C1_Witness ==
  /\ pc = "finished"
  /\ Len(all_urls) = 2
  /\ max_retries = 2
  /\ ~sink[1].success
  /\ sink[2].success

(***************************************************************************)
(* C2: an unparseable URL is not retried: once its record is written,      *)
(* exactly one attempt was made for it (when any attempt is allowed) and   *)
(* no backoff wait occurred, whatever maxRetries is.                       *)
(***************************************************************************)
C2_InvalidUrlNotRetried ==
  pc = "next" /\ CurrentUrlInvalid
    => /\ max_retries >= 1 => attempts_made = 1
       /\ sleeps_made = 0

(***************************************************************************)
(* C3: when an attempt for a URL succeeds after k-1 failed ones, with      *)
(* k <= maxRetries, the sink holds exactly one record for that URL, it is  *)
(* a success record, and no further attempt for the URL is made.           *)
(***************************************************************************)
C3_SuccessAfterRetries ==
  success
    => /\ pc \in {"while", "after", "next", "finished"}
       /\ attempts_made = retry_count + 1
       /\ attempts_made <= max_retries
       /\ Len(sink) = item
       /\ sink[item].success
       /\ sink[item].video_url = all_urls[item]

C3_Witness ==
  /\ success
  /\ pc = "next"
  /\ max_retries = 3
  /\ retry_count = 2
  /\ attempts_made = 3
  /\ sleeps_made = 2

(***************************************************************************)
(* C4: when every attempt for a URL fails and maxRetries >= 1, exactly     *)
(* maxRetries attempts are made, and the one failure record written has    *)
(* attempts = maxRetries and the message of the last failed attempt.       *)
(***************************************************************************)
C4_ExhaustionRecord ==
  pc = "next" /\ item >= 1 /\ ~success /\ max_retries >= 1
    => /\ attempts_made = max_retries
       /\ retry_count = max_retries
       /\ Len(sink) = item
       /\ ~sink[item].success
       /\ sink[item].attempts = max_retries
       /\ sink[item].error = exc.msg
       /\ sink[item].video_url = all_urls[item]

C4_Witness ==
  /\ pc = "next"
  /\ item >= 1
  /\ ~success
  /\ max_retries = 3
  /\ attempts_made = 3
  /\ sink[item].error = ErrNoVtt.msg
  /\ sink[item].attempts = 3

(***************************************************************************)
(* C5: when the combined URL list is empty the run fails at once with the  *)
(* message: no attempt, no wait, no record.                                *)
(***************************************************************************)
C5_EmptyInputFails ==
  pc # "start" /\ all_urls = <<>>
    => /\ pc \in {"check", "failed"}
       /\ pc = "check" => ENABLED FailEmpty /\ ~ENABLED StartBatch
       /\ pc = "failed" => fail_message = FailMessage
       /\ sink = <<>>
       /\ item = 0
       /\ attempts_made = 0
       /\ sleeps_made = 0
       /\ fetches_made = 0

C5_Witness ==
  /\ pc = "failed"
  /\ Len(start_urls) = 2
  /\ video_urls = <<>>
  /\ sink = <<>>
  /\ fail_message = FailMessage

(***************************************************************************)
(* C6: the scratch directory of a call exists only inside the call: it is  *)
(* gone once the call has returned or raised, and a URL with no video id   *)
(* never gets one.                                                         *)
(***************************************************************************)
C6_ScratchDirScoped ==
  /\ temp_dir => pc \in {"ytdlp", "find", "process", "checktext"}
  /\ pc \in {"ytdlp", "find", "process", "checktext"} => temp_dir
  /\ CurrentUrlInvalid /\ pc \notin {"start", "check"} => dirs_made = 0

C6_Witness ==
  /\ pc = "except"
  /\ exc = ErrEmpty
  /\ dirs_made = 2
  /\ ~temp_dir

(***************************************************************************)
(* C7: in one pass the emitted segments have pairwise different text, in   *)
(* the order of the first occurrence of each text in the document, and     *)
(* every text of the lines read so far is emitted exactly once; the text   *)
(* of a segment is what the entry of text_builder ends with.               *)
(***************************************************************************)
C7_NoDuplicateSegments ==
  npc \in {"loop", "returned"}
    => /\ Len(segLine) = Len(text_builder)
       /\ \A i \in 1..Len(segLine) : \A j \in 1..Len(segLine) :
            i < j => SegText(i) # SegText(j) /\ segLine[i] < segLine[j]
       /\ \A k \in 1..Len(segLine) :
            /\ KindOf(doc, segLine[k]) = "text"
            /\ EndsWith(text_builder[k], SegText(k))
            /\ \A n \in 1..(segLine[k] - 1) :
                 KindOf(doc, n) = "text" => TextOf(doc, n) # SegText(k)
       /\ \A n \in 1..Len(doc.lines) :
            (n < lineIdx /\ KindOf(doc, n) = "text")
              => \E k \in 1..Len(segLine) : SegText(k) = TextOf(doc, n)

C7_Witness ==
  /\ npc = "returned"
  /\ doc.lines = <<9, 10, 9>>
  /\ Len(text_builder) = 1
  /\ result = <<"h", "i">>

C9_NormalizeNeverRaises ==
  /\ exc # ErrProcess
  /\ pc = "checktext" /\ NoTextLine(vtt_file) => transcript_text = <<>>
  /\ pc = "checktext" /\ ~NoTextLine(vtt_file) => transcript_text # <<>>
  /\ pc = "except" /\ exc = ErrEmpty => OnlyBlankText(vtt_file) /\ ~temp_dir
  /\ pc = "push" => ~OnlyBlankText(vtt_file) /\ ret.transcript # <<>>

C9_Witness ==
  /\ pc = "except"
  /\ exc = ErrEmpty
  /\ vtt_file = Unreadable
  /\ transcript_text = <<>>

(***************************************************************************)
(* C10: a call of process_vtt_file returns what the same call returns on a *)
(* newly constructed extractor, whatever was normalized before it on the   *)
(* same extractor; so the same document twice gives the same output.       *)
(***************************************************************************)
C10_NoStateAcrossCalls ==
  /\ npc = "returned" => result = process_vtt_file(doc, include_timestamps).value
  /\ npc = "loop" /\ lineIdx = 1
       => /\ text_builder = <<>>
          /\ seen_segments = {}
          /\ current_timestamp = None

C10_Witness ==
  /\ npc = "returned"
  /\ include_timestamps
  /\ Len(done_docs) = 3
  /\ done_docs[2] = done_docs[3]
  /\ done_docs[1] # done_docs[2]
  /\ Len(done_docs[1].lines) = 3
  /\ result = <<"h", "i">>

(***************************************************************************)
(* C11: items are processed one after the other in input order: while an   *)
(* attempt for the URL at position i is under way, the sink holds the      *)
(* terminal records of the i-1 URLs before it and nothing else, and the    *)
(* records in the sink are in the order of the URLs of the list.           *)
(***************************************************************************)
C11_SequentialInOrder ==
  /\ InAttempt => Len(sink) = item - 1 /\ ~success
  /\ Len(sink) <= Len(all_urls)
  /\ \A k \in 1..Len(sink) : sink[k].video_url = all_urls[k]
  /\ pc = "finished" => [k \in 1..Len(sink) |-> sink[k].video_url] = all_urls

C11_Witness ==
  /\ pc = "extract"
  /\ item = 2
  /\ Len(sink) = 1
  /\ sink[1].success
  /\ all_urls[1] # all_urls[2]

(***************************************************************************)
(* C12: at most maxRetries attempts are made for one item; a failed        *)
(* attempt number k < maxRetries (whatever the failure) is followed by     *)
(* another attempt for the same item, and failed attempt number maxRetries *)
(* is followed by none.                                                    *)
(***************************************************************************)
C12_AttemptsInBounds ==
  /\ attempts_made <= (IF max_retries > 0 THEN max_retries ELSE 0)
  /\ retry_count <= attempts_made
  /\ pc = "except" => attempts_made = retry_count + 1

C12_RetrySteps ==
  /\ pc = "except" /\ retry_count + 1 < max_retries
       => pc' = "sleep" /\ retry_count' = retry_count + 1
  /\ pc = "except" /\ retry_count + 1 >= max_retries
       => pc' = "while" /\ retry_count' = retry_count + 1
  /\ pc = "sleep" => pc' = "while" /\ retry_count' = retry_count
  /\ pc = "while" /\ ~success /\ retry_count < max_retries
       => pc' = "extract" /\ attempts_made' = attempts_made + 1 /\ item' = item
  /\ pc = "while" /\ retry_count >= max_retries
       => pc' = "after" /\ attempts_made' = attempts_made

C12_BoundedRetries == []C12_AttemptsInBounds /\ [][C12_RetrySteps]_vars

C12_Witness ==
  /\ pc = "extract"
  /\ max_retries = 3
  /\ attempts_made = 3
  /\ retry_count = 2
  /\ exc = ErrEmpty

(***************************************************************************)
(* C13: the 5-second wait occurs only between two attempts of the same     *)
(* item: the n-th attempt of an item starts after exactly n-1 waits, so    *)
(* the first attempt of an item follows no wait; no wait follows a         *)
(* successful attempt or the last failed one, and an item that needed n    *)
(* attempts ends with n-1 waits.                                           *)
(***************************************************************************)
C13_BackoffBetweenAttempts ==
  /\ pc = "sleep" => ~success /\ retry_count < max_retries
                        /\ sleeps_made = attempts_made - 1
  /\ InAttempt \/ pc \in {"push", "except"} => sleeps_made = attempts_made - 1
  /\ success => sleeps_made = attempts_made - 1
  /\ pc \in {"after", "next", "finished"}
       => sleeps_made = (IF attempts_made = 0 THEN 0 ELSE attempts_made - 1)

C13_Witness ==
  /\ pc = "next"
  /\ item = 2
  /\ ~success
  /\ attempts_made = 3
  /\ sleeps_made = 2

(***************************************************************************)
(* C14: a fetch that exceeds its 120 seconds ends only the attempt it      *)
(* belongs to: the attempt fails with the timeout message, its scratch     *)
(* directory is removed, the retry loop counts it as one attempt of the    *)
(* same item and goes on to the wait or to the loop test, the sink is not  *)
(* touched, the run does not abort, and an item starts with its own        *)
(* counters whatever timed out before it.                                  *)
(***************************************************************************)
TimeoutMessage == "yt-dlp command timed out after 120 seconds"

C14_TimeoutSteps ==
  /\ pc = "ytdlp" /\ ytdlp'.kind = "timeout"
       => /\ pc' = "except"
          /\ exc'.msg = TimeoutMessage
          /\ ~temp_dir'
          /\ UNCHANGED <<item, sink, retry_count, attempts_made, success>>
  /\ pc = "except" /\ exc.msg = TimeoutMessage
       => /\ retry_count' = retry_count + 1
          /\ last_error' = TimeoutMessage
          /\ pc' = IF retry_count + 1 < max_retries THEN "sleep" ELSE "while"
          /\ UNCHANGED <<item, sink, attempts_made, success>>

C14_TimeoutContained ==
  /\ pc # "crashed"
  /\ pc = "while" /\ attempts_made = 0 => retry_count = 0 /\ last_error = NoError

C14_TimeoutEndsOneAttempt == []C14_TimeoutContained /\ [][C14_TimeoutSteps]_vars

C14_Witness ==
  /\ pc = "extract"
  /\ item = 1
  /\ attempts_made = 2
  /\ retry_count = 1
  /\ last_error = TimeoutMessage
  /\ ytdlp.kind = "timeout"

(***************************************************************************)
(* C15: one attempt runs id-parse, fetch, locate, normalize, build in that *)
(* order, and a step that fails sends the attempt to its failure without   *)
(* any later step: the fetch is never run for a URL no id can be parsed    *)
(* from, the normalizer is only run on the first document found by a fetch *)
(* that ended with status 0, and no success record is built or emitted     *)
(* from a transcript that has no character left after trimming.            *)
(***************************************************************************)
HasVisible(s) == \E k \in 1..Len(s) : s[k] \notin Whitespace

C15_StepOrder ==
  /\ pc = "extract" /\ pc' # pc => pc' \in {"mkdir", "except"}
  /\ pc = "mkdir" /\ pc' # pc => pc' = "ytdlp"
  /\ pc = "ytdlp" /\ pc' # pc => pc' \in {"find", "except"}
  /\ pc = "find" /\ pc' # pc => pc' \in {"process", "except"}
  /\ pc = "process" /\ pc' # pc => pc' \in {"checktext", "except"}
  /\ pc = "checktext" /\ pc' # pc => pc' \in {"push", "except"}
  /\ pc = "except" => pc' \notin {"mkdir", "ytdlp", "find", "process", "checktext", "push"}
  /\ pc' = "push" => pc = "checktext"
  /\ fetches_made' # fetches_made /\ item' = item => pc = "ytdlp" /\ video_id # NoId
  /\ pc = "extract" /\ CurrentUrlInvalid => pc' = "except"

C15_StepsGuarded ==
  /\ CurrentUrlInvalid => fetches_made = 0 /\ dirs_made = 0
  /\ pc \in {"mkdir", "ytdlp", "find", "process", "checktext"} => ~CurrentUrlInvalid /\ video_id # NoId
  /\ pc \in {"process", "checktext"}
       => /\ ytdlp.kind = "zero"
          /\ ytdlp.files # <<>>
          /\ vtt_file = ytdlp.files[1]
          /\ fetches_made >= 1
  /\ pc = "push" => ret.success /\ HasVisible(transcript_text) /\ HasVisible(ret.transcript)
  /\ \A k \in 1..Len(sink) : sink[k].success => HasVisible(sink[k].transcript)

C15_FixedStepOrder == []C15_StepsGuarded /\ [][C15_StepOrder]_vars

C15_Witness ==
  /\ pc = "except"
  /\ exc = ErrEmpty
  /\ transcript_text # <<>>
  /\ ~HasVisible(transcript_text)
  /\ Len(sink) = item - 1

(***************************************************************************)
(* C16: of the lines that are neither skipped nor timing lines, the ones   *)
(* discarded as index markers are exactly the lines of digits only: such a *)
(* line is never emitted and never enters seen_segments, while every other *)
(* such line is a text line, emitted where its text first occurs; so the   *)
(* line 12:34, which has the shape of a clock time, is emitted as text.    *)
(***************************************************************************)
ClockShapedLine == <<"1", "2", ":", "3", "4">>

EmittedLines == {segLine[k] : k \in 1..Len(segLine)}

C16_IndexMarkersDropped ==
  npc \in {"loop", "returned"}
    => /\ \A n \in 1..Len(doc.lines) :
            (n < lineIdx /\ KindOf(doc, n) \in {"index", "text"})
              => (n \in EmittedLines
                    <=> /\ KindOf(doc, n) = "text"
                        /\ \A m \in 1..(n - 1) :
                             KindOf(doc, m) = "text" => TextOf(doc, m) # TextOf(doc, n))
       /\ \A s \in seen_segments : \E k \in 1..Len(s) : s[k] \notin Digits
       /\ \A n \in 1..Len(doc.lines) :
            (n < lineIdx /\ LineChars[doc.lines[n]] = ClockShapedLine)
              => /\ ClockShapedLine \in seen_segments
                 /\ \E k \in 1..Len(segLine) :
                      /\ LineChars[doc.lines[segLine[k]]] = ClockShapedLine
                      /\ EndsWith(text_builder[k], ClockShapedLine)

C16_Witness ==
  /\ npc = "returned"
  /\ doc.lines = <<7, 8, 7>>
  /\ ~include_timestamps
  /\ result = ClockShapedLine

(***************************************************************************)
(* C17: a record of the sink has a transcript exactly when it is a success *)
(* record; the transcript of a success record begins and ends with a       *)
(* visible character, so it is trimmed and not empty, and its              *)
(* transcript_length is the number of characters of that transcript.       *)
(***************************************************************************)
C17_TranscriptIffSuccess ==
  \A k \in 1..Len(sink) :
    /\ ("transcript" \in DOMAIN sink[k]) <=> sink[k].success
    /\ ("transcript_length" \in DOMAIN sink[k]) <=> sink[k].success
    /\ sink[k].success
         => /\ Len(sink[k].transcript) >= 1
            /\ sink[k].transcript[1] \notin Whitespace
            /\ sink[k].transcript[Len(sink[k].transcript)] \notin Whitespace
            /\ sink[k].transcript_length = Len(sink[k].transcript)

C17_Witness ==
  /\ Len(sink) = 2
  /\ sink[1].success
  /\ sink[1].transcript = <<"y", "o">>
  /\ sink[1].transcript_length = Len(<<"y", "o">>)
  /\ ~sink[2].success
  /\ sink[2].error = "No transcript content found in VTT file"

(***************************************************************************)
(* C18: an item starts with retry_count 0, success false and no last       *)
(* error, whatever the items before it did; so every item that fails has   *)
(* made the same number of attempts, the most maxRetries allows, and its   *)
(* failure record has the message of its own last attempt; between items   *)
(* only the sink carries over, and a step either leaves the sink alone or  *)
(* appends one record to it, the records already there staying as they     *)
(* are.                                                                    *)
(***************************************************************************)
C18_FreshItem ==
  /\ pc = "while" /\ attempts_made = 0
       => retry_count = 0 /\ ~success /\ last_error = NoError
  /\ pc \in {"while", "after"} /\ ~success => retry_count = attempts_made
  /\ pc = "after" /\ ~success
       => attempts_made = (IF max_retries > 0 THEN max_retries ELSE 0)
  /\ pc = "next" /\ item >= 1 /\ ~success
       => /\ sink[item].error = last_error
          /\ attempts_made >= 1 => sink[item].error = exc.msg
          /\ attempts_made = 0 => sink[item].error = NoError

C18_ItemSteps ==
  /\ item' # item
       => /\ item' = item + 1
          /\ retry_count' = 0
          /\ ~success'
          /\ last_error' = NoError
          /\ sink' = sink
  /\ \/ sink' = sink
     \/ /\ Len(sink') = Len(sink) + 1
        /\ SubSeq(sink', 1, Len(sink)) = sink
        /\ sink'[Len(sink')].video_url = all_urls[item]

C18_NoStateAcrossItems == []C18_FreshItem /\ [][C18_ItemSteps]_vars

C18_Witness ==
  /\ pc = "while"
  /\ item = 2
  /\ attempts_made = 0
  /\ retry_count = 0
  /\ last_error = NoError
  /\ exc # NoExc
  /\ Len(sink) = 1
  /\ ~sink[1].success
  /\ sink[1].attempts = 3

(***************************************************************************)
(* C19: for every value of maxRetries, the failure record of an item has   *)
(* the message of an attempt of that item that failed, never the absent    *)
(* value, and its attempts field is the number of attempts made for the    *)
(* item.                                                                   *)
(***************************************************************************)
C19_FailureRecordFaithful ==
  /\ \A k \in 1..Len(sink) : ~sink[k].success => sink[k].error # NoError
  /\ pc = "next" /\ item >= 1 /\ ~success
       => /\ sink[item].error = exc.msg
          /\ sink[item].attempts = attempts_made

(***************************************************************************)
(* C20: every emitted segment, and every entry of seen_segments, has a     *)
(* visible character and no markup span; a line that is only tags and      *)
(* blanks adds no segment and no entry; and no two entries of              *)
(* seen_segments differ only in the blanks at their ends.                  *)
(***************************************************************************)
HasMarkupSpan(s) ==
  \E i \in 1..Len(s) : \E j \in 1..Len(s) : i < j /\ s[i] = "<" /\ s[j] = ">"

C20_SegmentsHaveText ==
  npc \in {"loop", "returned"}
    => /\ \A k \in 1..Len(segLine) :
            /\ HasVisible(SegText(k))
            /\ ~HasMarkupSpan(SegText(k))
            /\ ~HasMarkupSpan(text_builder[k])
       /\ \A s \in seen_segments : HasVisible(s) /\ ~HasMarkupSpan(s)
       /\ \A s \in seen_segments : \A t \in seen_segments :
            Strip(s) = Strip(t) => s = t
====
